---------------------------- MODULE Spec2Model ----------------------------
(***************************************************************************)
(* A model of the Game of Life application of src/src/main.rs: the grid    *)
(* engine (Grid::tick, Grid::populated_neighbors, Grid::update), the edit  *)
(* session (<Grid as canvas::Program>::update with Grid::region and        *)
(* Grid::cell_at) and the tick scheduling of GameOfLife::update and        *)
(* GameOfLife::subscription.                                               *)
(*                                                                         *)
(* The application is single-threaded: every message is handled by         *)
(* GameOfLife::update, one at a time.  Messages come from two places:      *)
(* widgets (the canvas, the buttons, the slider), whose messages are kept  *)
(* in order in `queue` until they are handled, and the timer of the        *)
(* subscription, which runs on the executor and sends its Tick through a   *)
(* channel of its own (`ticks` counts the Ticks sent and not yet handled). *)
(* After update the runtime asks subscription() which timer is to run;     *)
(* `timer` is its answer.                                                  *)
(***************************************************************************)
EXTENDS Integers, Sequences, FiniteSets

(***************************************************************************)
(* Bounds of the model.                                                    *)
(***************************************************************************)
\* Side of the grid.  The program's SIZE (main.rs:162) is 32; the model keeps
\* the name and scales the value down.
SIZE == 3
\* Widget messages produced and not yet handled.
MaxQueue == 1
\* Ticks sent by the timer and not yet handled.
MaxTicks == 1
\* Consecutive advances a still life is followed through.
Generations == 10
\* Populate messages the canvas makes from one batch of events of a drag,
\* before the first of them is handled.
MaxBatch == 2
\* Longest side, in pixels, of the canvases every position of which is
\* hit-tested.
MaxSide == 4

(***************************************************************************)
(* Program constants.                                                      *)
(***************************************************************************)
MILLISEC == 1000
InitialSpeed == 5

\* Option<T>: None, Some(v).
None == << >>
Some(v) == << v >>

\* enum Cell
Unpopulated == FALSE
Populated == TRUE

Index == 0 .. (SIZE - 1)
Grids == [Index -> [Index -> {Unpopulated, Populated}]]
\* Grid::default(): every cell Cell::default().
EmptyCells == [i \in Index |-> [j \in Index |-> Unpopulated]]

\* usize::saturating_sub(1)
saturating_sub1(n) == IF n = 0 THEN 0 ELSE n - 1

\* f32::ceil of the quotient a / b, then `as usize`, for a >= 0 and b >= 0.
\* (With b = 0 the region is a point and a is 0: 0.0 / 0.0 is NaN, which
\* `as usize` turns into 0.)
ceil_div(a, b) == IF b = 0 THEN 0 ELSE (a + b - 1) \div b

\* A rounding bug: a whole is added before the cut instead of a half.
round_up_as_u64(tenths) == (tenths + 10) \div 10

\* f32::round of a value given in tenths (positive: half away from zero),
\* then `as u64`.
round_as_u64(tenths) == (tenths + 5) \div 10

(***************************************************************************)
(* Grid engine.                                                            *)
(***************************************************************************)
\* A counting bug: `&&` for `||` in is_neighbor, so that only the diagonal
\* positions count.
populated_neighbors_diagonal(cs, row, column) ==
    LET rows == saturating_sub1(row) .. (row + 1)
        columns == saturating_sub1(column) .. (column + 1)
        is_inside_bounds(i, j) == i < SIZE /\ j < SIZE
        is_neighbor(i, j) == i # row /\ j # column
        is_populated(i, j) == cs[i][j] = Populated
    IN  Cardinality({p \in rows \X columns :
            is_inside_bounds(p[1], p[2]) /\ is_neighbor(p[1], p[2])
                /\ is_populated(p[1], p[2])})

\* A bounds bug: `SIZE - 1` for `SIZE` in is_inside_bounds, so that the last
\* row and the last column are never counted.
populated_neighbors_short(cs, row, column) ==
    LET rows == saturating_sub1(row) .. (row + 1)
        columns == saturating_sub1(column) .. (column + 1)
        is_inside_bounds(i, j) == i < SIZE - 1 /\ j < SIZE - 1
        is_neighbor(i, j) == i # row \/ j # column
        is_populated(i, j) == cs[i][j] = Populated
    IN  Cardinality({p \in rows \X columns :
            is_inside_bounds(p[1], p[2]) /\ is_neighbor(p[1], p[2])
                /\ is_populated(p[1], p[2])})

\* Grid::populated_neighbors
populated_neighbors(cs, row, column) ==
    LET rows == saturating_sub1(row) .. (row + 1)
        columns == saturating_sub1(column) .. (column + 1)
        is_inside_bounds(i, j) == i < SIZE /\ j < SIZE
        is_neighbor(i, j) == i # row \/ j # column
        is_populated(i, j) == cs[i][j] = Populated
    IN  Cardinality({p \in rows \X columns :
            is_inside_bounds(p[1], p[2]) /\ is_neighbor(p[1], p[2])
                /\ is_populated(p[1], p[2])})

\* The match of Grid::tick on a cell's amount of populated neighbours.
next_cell(amount, is_populated) ==
    IF amount = 2 /\ is_populated THEN Populated
    ELSE IF amount = 3 THEN Populated
    ELSE Unpopulated

\* The second loop of Grid::tick from cell number k on, in row-major order:
\* it writes self.cells in place, reading the amounts counted beforehand.
RECURSIVE apply_amounts(_, _, _)
apply_amounts(cs, amounts, k) ==
    IF k = SIZE * SIZE THEN cs
    ELSE LET i == k \div SIZE
             j == k % SIZE
         IN  apply_amounts(
                 [cs EXCEPT ![i][j] = next_cell(amounts[i][j], cs[i][j] = Populated)],
                 amounts, k + 1)

\* One loop instead of two: each cell's neighbours are counted in the matrix
\* as it stands when the cell is reached, after the earlier cells were written.
RECURSIVE tick_in_place(_, _)
tick_in_place(cs, k) ==
    IF k = SIZE * SIZE THEN cs
    ELSE LET i == k \div SIZE
             j == k % SIZE
         IN  tick_in_place(
                 [cs EXCEPT ![i][j] =
                     next_cell(populated_neighbors(cs, i, j), cs[i][j] = Populated)],
                 k + 1)

tick_single_pass(cs) == tick_in_place(cs, 0)

\* Grid::tick: the first loop fills populated_neighbors from self.cells, the
\* second rewrites self.cells.  (The canvas cache is rendering state.)
tick(cs) ==
    LET amounts == [i \in Index |-> [j \in Index |-> populated_neighbors(cs, i, j)]]
    IN  apply_amounts(cs, amounts, 0)

\* A dropping bug: the message is taken and the cell left as it is.
populate_dropped(cs, i, j) == cs

\* A painting bug: the cell is flipped instead of set.
populate_flipping(cs, i, j) == [cs EXCEPT ![i][j] = ~cs[i][j]]

\* Grid::update, Message::Populate { i, j }
populate(cs, i, j) == [cs EXCEPT ![i][j] = Populated]

(***************************************************************************)
(* Edit session.  Lengths are whole pixels; a rectangle's x and y are kept *)
(* doubled (x2 = 2 * x), since (width - side) / 2 may be a half.           *)
(***************************************************************************)
\* Grid::region
region(size) ==
    LET side == IF size.width <= size.height THEN size.width ELSE size.height
    IN  [x2 |-> size.width - side, y2 |-> size.height - side,
         width |-> side, height |-> side]

\* Rectangle::contains, as Grid::cell_at calls it: both ends are inside.
contains(r, position) ==
    /\ r.x2 <= 2 * position.x
    /\ 2 * position.x <= r.x2 + 2 * r.width
    /\ r.y2 <= 2 * position.y
    /\ 2 * position.y <= r.y2 + 2 * r.height

\* A mapping bug: the quotient is cut (floor) and taken as the index, which
\* the far edge of the region, that contains() lets in, takes past the grid.
cell_at_floor(r, position) ==
    IF contains(r, position)
    THEN LET i == IF r.width = 0 THEN 0
                  ELSE ((2 * position.y - r.y2) * SIZE) \div (2 * r.width)
             j == IF r.width = 0 THEN 0
                  ELSE ((2 * position.x - r.x2) * SIZE) \div (2 * r.width)
         IN  Some(<<i, j>>)
    ELSE None

\* Grid::cell_at.  cell_size = width / SIZE, so that
\* (position.y - region.y) / cell_size = (2 y - y2) * SIZE / (2 * width).
cell_at(r, position) ==
    IF contains(r, position)
    THEN LET i == ceil_div((2 * position.y - r.y2) * SIZE, 2 * r.width)
             j == ceil_div((2 * position.x - r.x2) * SIZE, 2 * r.width)
         IN  Some(<<saturating_sub1(i), saturating_sub1(j)>>)
    ELSE None

\* canvas::Event, as far as update tells them apart.
ButtonPressedLeft == "ButtonPressed(Left)"
ButtonReleasedLeft == "ButtonReleased(Left)"
CursorMoved == "CursorMoved"
OtherEvent == "Other"
Events == {ButtonPressedLeft, ButtonReleasedLeft, CursorMoved, OtherEvent}

\* A mistaken release: the flag is left as it was.
pressed_after_sticky(mouse_pressed_, event) ==
    IF event = ButtonPressedLeft THEN TRUE ELSE mouse_pressed_

\* The head of <Grid as canvas::Program>::update: the flag after the event.
pressed_after(mouse_pressed_, event) ==
    IF event = ButtonPressedLeft THEN TRUE
    ELSE IF event = ButtonReleasedLeft THEN FALSE
    ELSE mouse_pressed_

\* A painting bug: the intent is made whatever the cell holds.
populate_intent_always(cs, i, j) == Some([type |-> "Populate", i |-> i, j |-> j])

\* `let populate = ...` of <Grid as canvas::Program>::update.
populate_intent(cs, i, j) ==
    IF cs[i][j] # Populated
    THEN Some([type |-> "Populate", i |-> i, j |-> j])
    ELSE None

\* A dragging bug: the arm of CursorMoved is missing, so that only presses
\* paint.
canvas_update_press_only(cs, mouse_pressed_, event, bounds, cursor) ==
    LET pressed == pressed_after(mouse_pressed_, event)
        ignored == [mouse_pressed |-> pressed, status |-> "Ignored", message |-> None]
    IN  IF cursor = None THEN ignored
        ELSE LET at == cell_at(region(bounds), cursor[1])
             IN  IF at = None THEN ignored
                 ELSE IF event = ButtonPressedLeft /\ pressed
                      THEN [mouse_pressed |-> pressed, status |-> "Captured",
                            message |-> populate_intent(cs, at[1][1], at[1][2])]
                      ELSE ignored

\* <Grid as canvas::Program>::update.  cursor is Cursor::position_in(&bounds):
\* None when the cursor is not over the canvas, Some(position) otherwise.
canvas_update(cs, mouse_pressed_, event, bounds, cursor) ==
    LET pressed == pressed_after(mouse_pressed_, event)
        ignored == [mouse_pressed |-> pressed, status |-> "Ignored", message |-> None]
    IN  IF cursor = None THEN ignored
        ELSE LET at == cell_at(region(bounds), cursor[1])
             IN  IF at = None THEN ignored
                 ELSE LET i == at[1][1]
                          j == at[1][2]
                      IN  IF event \in {ButtonPressedLeft, CursorMoved} /\ pressed
                          THEN [mouse_pressed |-> pressed, status |-> "Captured",
                                message |-> populate_intent(cs, i, j)]
                          ELSE ignored

(***************************************************************************)
(* The application.                                                        *)
(***************************************************************************)
Tick == [type |-> "Tick"]
Toggle == [type |-> "Toggle"]
NextMsg == [type |-> "Next"]
Clear == [type |-> "Clear"]
SpeedChanged(v) == [type |-> "SpeedChanged", speed |-> v]

\* A stepping bug: the pending speed is consumed by Tick alone.
advance_tick_only(g, message) ==
    [g EXCEPT !.cells = tick(g.cells),
              !.speed = IF g.next_speed # None /\ message.type = "Tick"
                        THEN g.next_speed[1] ELSE g.speed,
              !.next_speed = IF message.type = "Tick" THEN None ELSE g.next_speed]

\* An applying bug: the arm advances the grid and leaves the speeds alone.
advance_grid_only(g, message) == [g EXCEPT !.cells = tick(g.cells)]

\* A consuming bug: the pending speed is read without take(), so that it
\* stays pending after the advance.
advance_keeps_pending(g, message) ==
    [g EXCEPT !.cells = tick(g.cells),
              !.speed = IF g.next_speed # None THEN g.next_speed[1] ELSE g.speed]

\* GameOfLife::update, Message::Tick | Message::Next
advance(g, message) ==
    [g EXCEPT !.cells = tick(g.cells),
              !.speed = IF g.next_speed # None THEN g.next_speed[1] ELSE g.speed,
              !.next_speed = None]

\* A staging bug: the speed is set at once while playing, too.
speed_changed_at_once(g, v) ==
    [g EXCEPT !.speed = round_as_u64(v),
              !.next_speed = IF g.is_playing THEN Some(round_as_u64(v)) ELSE g.next_speed]

\* GameOfLife::update, Message::SpeedChanged(speed)
speed_changed(g, v) ==
    IF g.is_playing
    THEN [g EXCEPT !.next_speed = Some(round_as_u64(v))]
    ELSE [g EXCEPT !.speed = round_as_u64(v)]

\* A clearing bug: the cells are emptied one by one, except the Populated
\* ones that have two Populated neighbours.
grid_default_sparing(g) ==
    [g EXCEPT !.cells = [i \in Index |-> [j \in Index |->
                            IF g.cells[i][j] = Populated
                                   /\ populated_neighbors(g.cells, i, j) = 2
                            THEN Populated ELSE Unpopulated]],
              !.mouse_pressed = FALSE]

\* GameOfLife::update, Message::Clear: self.grid = Grid::default(), the
\* derived Default of the struct Grid (every cell Cell::default(),
\* mouse_pressed false).
grid_default(g) ==
    [g EXCEPT !.cells = EmptyCells, !.mouse_pressed = FALSE]

\* GameOfLife::update on g = [cells, mouse_pressed, is_playing, speed,
\* next_speed].
update(g, message) ==
    CASE message.type = "Populate" ->
            [g EXCEPT !.cells = populate(g.cells, message.i, message.j)]
      [] message.type \in {"Tick", "Next"} -> advance(g, message)
      [] message.type = "Toggle" -> [g EXCEPT !.is_playing = ~g.is_playing]
      [] message.type = "Clear" -> grid_default(g)
      [] message.type = "SpeedChanged" -> speed_changed(g, message.speed)

\* A period bug: the period is computed from the speed of GameOfLife::new.
subscription_initial_speed(g) ==
    IF g.is_playing THEN Some(MILLISEC \div InitialSpeed) ELSE None

\* GameOfLife::subscription: the period of the timer, or None.
subscription(g) ==
    IF g.is_playing THEN Some(MILLISEC \div g.speed) ELSE None

(***************************************************************************)
(* State.                                                                  *)
(***************************************************************************)
VARIABLES
    cells,          \* Grid::cells
    mouse_pressed,  \* Grid::mouse_pressed
    is_playing,     \* GameOfLife::is_playing
    speed,          \* GameOfLife::speed
    next_speed,     \* GameOfLife::next_speed
    timer,          \* the subscription the runtime holds: Some(period) or None
    queue,          \* widget messages not yet handled, oldest first
    ticks,          \* Ticks the timer sent that are not yet handled
    last,           \* history: the event or message handled last
    status,         \* history: the event::Status the canvas returned last
    speed_before,   \* history: self.speed before the message handled last
    paused_speed,   \* history: the speed of the last SpeedChanged handled while
                    \* not playing, since the last Toggle; None when there is none
    drag,           \* history: the drag along the first row that is followed
                    \* (its phase, the columns visited, the intents made for
                    \* each column)
    painted         \* history: the cells of the Populate messages handled
                    \* since the last advance (all), and those of them handled
                    \* after the last Clear (kept)

vars == <<cells, mouse_pressed, is_playing, speed, next_speed, timer, queue, ticks,
          last, status, speed_before, paused_speed, drag, painted>>

game == [cells |-> cells, mouse_pressed |-> mouse_pressed, is_playing |-> is_playing,
         speed |-> speed, next_speed |-> next_speed]

(***************************************************************************)
(* Inputs.                                                                 *)
(***************************************************************************)
\* Values of the slider (1.0 ..= 20.0), in tenths.
SliderValues == {10, 50, 200}

\* Sizes of the canvas: a square one, and a wide one whose grid region is
\* the centred square from x = 2 to x = 14.
Viewports == {[width |-> 12, height |-> 12], [width |-> 16, height |-> 12]}

\* Cursor::position_in(&bounds): not over the canvas, or a position in it.
\* The positions lie in the grid's first two rows and columns, and left of
\* the region of the wide canvas.
CursorXs == {0, 2, 5}
CursorYs == {2, 5}
Cursors == {None} \cup {Some([x |-> x, y |-> y]) : x \in CursorXs, y \in CursorYs}

\* Every size of a canvas up to MaxSide pixels a side, and every position
\* of the cursor over such a canvas (Cursor::position_in(&bounds) is Some).
HitSizes == [width : 0 .. MaxSide, height : 0 .. MaxSide]
HitPositions(size) == [x : 0 .. size.width, y : 0 .. size.height]

\* Every value of the slider's range 1.0 ..= 20.0, in tenths.
SliderRange == 10 .. 200

\* Messages of the buttons and the slider (GameOfLife::view).
WidgetMessages == {Toggle, NextMsg, Clear} \cup {SpeedChanged(v) : v \in SliderValues}

\* The drag that is followed: on a square canvas of 12 pixels a side, along
\* the grid's first row; the cursor is inside the cell of the column it is on.
DragViewport == [width |-> 12, height |-> 12]
DragCursor(column) == Some([x |-> (column * DragViewport.width) \div SIZE + 1, y |-> 1])
NonePainted == [all |-> {}, kept |-> {}]
painted_after(record, message) ==
    CASE message.type = "Populate" ->
            [all |-> record.all \cup {<<message.i, message.j>>},
             kept |-> record.kept \cup {<<message.i, message.j>>}]
      [] message.type \in {"Tick", "Next"} -> NonePainted
      [] message.type = "Clear" -> [record EXCEPT !.kept = {}]
      [] OTHER -> record
NoDrag == [phase |-> "idle", visited |-> {}, intents |-> [column \in Index |-> 0]]

\* A painted grid: three cells in a row, which Grid::tick turns into three
\* in a column and back.
Blinker == [i \in Index |-> [j \in Index |-> i = 1 /\ j \in 0 .. 2]]

(***************************************************************************)
(* Actions.                                                                *)
(***************************************************************************)
\* GameOfLife::new, with the grid given.
InitWith(grids) ==
    /\ cells \in grids
    /\ mouse_pressed = FALSE
    /\ is_playing = FALSE
    /\ speed = InitialSpeed
    /\ next_speed = None
    /\ timer = None
    /\ queue = << >>
    /\ ticks = 0
    /\ last = "new"
    /\ status = "Ignored"
    /\ speed_before = InitialSpeed
    /\ paused_speed = None
    /\ drag = NoDrag
    /\ painted = NonePainted

\* GameOfLife::new
Init == InitWith({EmptyCells})

\* A mouse event reaches the canvas; the intent it returns is queued, where
\* the queue has room for it.
Canvas(event, bounds, cursor, room) ==
    \E r \in {canvas_update(cells, mouse_pressed, event, bounds, cursor)} :
        /\ r.message # None => Len(queue) < room
        /\ mouse_pressed' = r.mouse_pressed
        /\ queue' = IF r.message = None THEN queue ELSE Append(queue, r.message[1])
        /\ last' = event
        /\ status' = r.status
        /\ UNCHANGED <<cells, is_playing, speed, next_speed, timer, ticks,
                       speed_before, paused_speed, painted>>

CanvasEvent(event, bounds, cursor) ==
    /\ Canvas(event, bounds, cursor, MaxQueue)
    /\ UNCHANGED drag

\* A button is pressed or the slider moved: its message is queued.
Widget(message) ==
    /\ Len(queue) < MaxQueue
    /\ queue' = Append(queue, message)
    /\ UNCHANGED <<cells, mouse_pressed, is_playing, speed, next_speed, timer, ticks,
                   last, status, speed_before, paused_speed, drag, painted>>

\* The running timer's period elapses: it sends a Tick.
TimerFires ==
    /\ timer # None
    /\ ticks < MaxTicks
    /\ ticks' = ticks + 1
    /\ UNCHANGED <<cells, mouse_pressed, is_playing, speed, next_speed, timer, queue,
                   last, status, speed_before, paused_speed, drag, painted>>

\* GameOfLife::update(message), then the runtime's call of subscription().
\* (g ranges over the one result of update, so that it is computed once.)
Update(message) ==
    \E g \in {update(game, message)} :
        /\ cells' = g.cells
        /\ mouse_pressed' = g.mouse_pressed
        /\ is_playing' = g.is_playing
        /\ speed' = g.speed
        /\ next_speed' = g.next_speed
        /\ timer' = subscription(g)
        /\ last' = message.type
        /\ speed_before' = speed
        /\ paused_speed' =
               IF message.type = "Toggle" THEN None
               ELSE IF message.type = "SpeedChanged" /\ ~is_playing
                    THEN Some(round_as_u64(message.speed))
               ELSE paused_speed
        /\ UNCHANGED <<status, drag>>

Handle(message) ==
    /\ Update(message)
    /\ UNCHANGED painted

\* The oldest widget message is handled.
Dispatch ==
    /\ queue # << >>
    /\ Handle(Head(queue))
    /\ queue' = Tail(queue)
    /\ UNCHANGED ticks

\* A Tick of the timer is handled.
DeliverTick ==
    /\ ticks > 0
    /\ Handle(Tick)
    /\ ticks' = ticks - 1
    /\ UNCHANGED queue

\* The whole application.
Next ==
    \/ \E event \in Events, bounds \in Viewports, cursor \in Cursors :
           CanvasEvent(event, bounds, cursor)
    \/ \E message \in WidgetMessages : Widget(message)
    \/ TimerFires
    \/ Dispatch
    \/ DeliverTick

Spec == Init /\ [][Next]_vars

(***************************************************************************)
(* The grid engine, from every grid (every grid can be painted from the    *)
(* empty one by Populate messages): Next is pressed, once the message      *)
(* before it is handled, and handled.                                      *)
(***************************************************************************)
NextGrid ==
    \/ queue = << >> /\ Widget(NextMsg)
    \/ Dispatch

SpecGrid == InitWith(Grids) /\ [][NextGrid]_vars

(***************************************************************************)
(* The scheduler: the buttons, the slider and the timer, over a grid that  *)
(* is empty or holds a painted Blinker.                                    *)
(***************************************************************************)
NextScheduler ==
    \/ \E message \in WidgetMessages : Widget(message)
    \/ TimerFires
    \/ Dispatch
    \/ DeliverTick

SpecScheduler == InitWith({EmptyCells, Blinker}) /\ [][NextScheduler]_vars

(***************************************************************************)
(* The scheduler with its timing: while a timer runs its period elapses    *)
(* again and again (weak fairness of TimerFires), and the runtime handles  *)
(* every Tick it is sent (weak fairness of DeliverTick).  The grid holds a *)
(* painted Blinker; the Play/Pause button is pressed and the slider moved, *)
(* each once the message before it is handled.                             *)
(***************************************************************************)
NextFair ==
    \/ (queue = << >> /\ Widget(Toggle))
    \/ (\E v \in SliderValues : queue = << >> /\ Widget(SpeedChanged(v)))
    \/ TimerFires
    \/ Dispatch
    \/ DeliverTick

SpecFair ==
    /\ InitWith({Blinker})
    /\ [][NextFair]_vars
    /\ WF_vars(TimerFires)
    /\ WF_vars(DeliverTick)

(***************************************************************************)
(* The buttons and the slider alone: runs in which the timer's period does *)
(* not elapse.                                                             *)
(***************************************************************************)
NextWidgets ==
    \/ \E message \in WidgetMessages : Widget(message)
    \/ Dispatch

SpecWidgets == InitWith({EmptyCells, Blinker}) /\ [][NextWidgets]_vars

(***************************************************************************)
(* The edit session: mouse events on the canvas and the Populate messages  *)
(* they make, with the Next and Clear buttons.                             *)
(***************************************************************************)
NextEdit ==
    \/ \E event \in Events, bounds \in Viewports, cursor \in Cursors :
           CanvasEvent(event, bounds, cursor)
    \/ Widget(NextMsg)
    \/ Widget(Clear)
    \/ Dispatch

SpecEdit == Init /\ [][NextEdit]_vars

(***************************************************************************)
(* One drag on the empty grid: the button is pressed in cell (0, 0), the   *)
(* cursor moves over the cells of the first row in any order, any number   *)
(* of times, and the button is released.  The Populate messages are        *)
(* handled in between or afterwards, as the runtime gets to them: it       *)
(* hands the canvas a batch of events and handles their messages after it. *)
(***************************************************************************)
\* An event of the drag with the cursor in cell (0, column): the canvas
\* handles it, and the drag's record counts the intent it makes.
DragEvent(event, column, phase) ==
    /\ Canvas(event, DragViewport, DragCursor(column), MaxBatch)
    /\ drag' = [phase |-> phase,
                visited |-> drag.visited \cup {column},
                intents |-> IF Len(queue') > Len(queue)
                            THEN [drag.intents EXCEPT ![queue'[Len(queue')].j] = @ + 1]
                            ELSE drag.intents]

PointerDown == drag.phase = "idle" /\ DragEvent(ButtonPressedLeft, 0, "down")
PointerMove(column) == drag.phase = "down" /\ DragEvent(CursorMoved, column, "down")
PointerUp ==
    /\ drag.phase = "down"
    /\ \E column \in drag.visited : DragEvent(ButtonReleasedLeft, column, "up")

NextDrag ==
    \/ PointerDown
    \/ \E column \in Index : PointerMove(column)
    \/ PointerUp
    \/ Dispatch

SpecDrag == Init /\ [][NextDrag]_vars

(***************************************************************************)
(* The edit session with the order of the grid's mutations recorded:       *)
(* `painted` keeps the cells of the Populate messages handled since the    *)
(* last advance.                                                           *)
(***************************************************************************)
\* The oldest widget message is handled, and recorded.
DispatchRecorded ==
    /\ queue # << >>
    /\ Update(Head(queue))
    /\ painted' = painted_after(painted, Head(queue))
    /\ queue' = Tail(queue)
    /\ UNCHANGED ticks

NextOrder ==
    \/ \E event \in Events, bounds \in Viewports, cursor \in Cursors :
           CanvasEvent(event, bounds, cursor)
    \/ Widget(NextMsg)
    \/ Widget(Clear)
    \/ DispatchRecorded

SpecOrder == Init /\ [][NextOrder]_vars

(***************************************************************************)
(* Steps, for the properties below.                                        *)
(***************************************************************************)
\* A message of the given type is handled by GameOfLife::update: only
\* Dispatch takes a message from the queue and only DeliverTick takes a Tick,
\* and both record the message's type.
Handled(type) ==
    /\ last' = type
    /\ Len(queue') + 1 = Len(queue) \/ ticks' + 1 = ticks

\* A generation advance: Tick or Next is handled.
AdvanceStep == Handled("Tick") \/ Handled("Next")

(***************************************************************************)
(* The reference the grid engine is compared with: Conway's rule applied   *)
(* to every cell at once, reading the old grid only.                       *)
(***************************************************************************)
\* 1 when (i, j) lies in the grid and is Populated, else 0.
Alive(cs, i, j) ==
    IF i \in Index /\ j \in Index /\ cs[i][j] = Populated THEN 1 ELSE 0

\* The Populated cells among the positions (row + dr, col + dc), dr and dc in
\* {-1, 0, 1} and not both 0, that lie in the grid.
LiveNeighbours(cs, row, col) ==
      Alive(cs, row - 1, col - 1) + Alive(cs, row - 1, col) + Alive(cs, row - 1, col + 1)
    + Alive(cs, row, col - 1) + Alive(cs, row, col + 1)
    + Alive(cs, row + 1, col - 1) + Alive(cs, row + 1, col) + Alive(cs, row + 1, col + 1)

SynchronousStep(cs) ==
    [i \in Index |-> [j \in Index |->
        IF \/ cs[i][j] = Populated /\ LiveNeighbours(cs, i, j) \in {2, 3}
           \/ cs[i][j] = Unpopulated /\ LiveNeighbours(cs, i, j) = 3
        THEN Populated ELSE Unpopulated]]

IsCorner(row, col) == row \in {0, SIZE - 1} /\ col \in {0, SIZE - 1}
IsEdge(row, col) == row \in {0, SIZE - 1} \/ col \in {0, SIZE - 1}

(***************************************************************************)
(* C1.  After one Grid::tick a cell is Populated if and only if, in the    *)
(* grid as it was before the tick, it was Populated with 2 or 3 Populated  *)
(* neighbours or Unpopulated with exactly 3: every generation advance      *)
(* leaves the grid that the synchronous, double-buffered update of the old *)
(* grid gives, so no cell's new state reads a cell rewritten in the same   *)
(* tick.                                                                   *)
(***************************************************************************)
C1_TickIsSynchronous ==
    [][AdvanceStep => cells' = SynchronousStep(cells)]_vars

\* An advance has been handled and has left a grid that is alive and is not
\* a still life.
C1_Witness ==
    /\ last = "Next"
    /\ cells # EmptyCells
    /\ SynchronousStep(cells) # cells

(***************************************************************************)
(* C2.  For every cell of the grid, populated_neighbors is the number of   *)
(* Populated cells among the up to eight positions around it that lie in   *)
(* the grid (the cell itself not counted, nothing wrapped around); it is   *)
(* within 0..8, at most 5 on an edge and at most 3 in a corner.            *)
(***************************************************************************)
C2_NeighbourCount ==
    \A row \in Index, col \in Index :
        \A n \in {populated_neighbors(cells, row, col)} :
            /\ n = LiveNeighbours(cells, row, col)
            /\ n \in 0 .. 8
            /\ IsEdge(row, col) => n <= 5
            /\ IsCorner(row, col) => n <= 3

\* An advance has counted the neighbours and left a grid on which a corner
\* counts the 3 cells it can and an edge cell the 5 it can.
C2_Witness ==
    /\ last = "Next"
    /\ \E row \in Index, col \in Index :
           IsCorner(row, col) /\ populated_neighbors(cells, row, col) = 3
    /\ \E row \in Index, col \in Index :
           /\ IsEdge(row, col)
           /\ ~IsCorner(row, col)
           /\ populated_neighbors(cells, row, col) = 5

C4_PausedSpeedUsedOnStart ==
    [][/\ (Handled("SpeedChanged") /\ ~is_playing) =>
              speed' = round_as_u64(Head(queue).speed)
       /\ (Handled("Toggle") /\ ~is_playing /\ paused_speed # None) =>
              timer' = Some(MILLISEC \div paused_speed[1])
      ]_vars

(***************************************************************************)
(* C5 (as amended).  A generation advance (Tick or Next) copies the value  *)
(* held in next_speed, the most recently staged one, into speed and leaves *)
(* next_speed empty, so that no staged value is applied at two advances;   *)
(* a staged value leaves next_speed only by being applied at the next      *)
(* advance or by being replaced, before that advance, by the value of a    *)
(* later SpeedChanged handled while playing.                               *)
(***************************************************************************)
C5_PendingAppliedOnce ==
    [][/\ AdvanceStep =>
              /\ next_speed' = None
              /\ speed' = IF next_speed # None THEN next_speed[1] ELSE speed
       /\ (next_speed # None /\ next_speed' # next_speed) =>
              \/ AdvanceStep /\ speed' = next_speed[1]
              \/ /\ Handled("SpeedChanged")
                 /\ is_playing
                 /\ next_speed' = Some(round_as_u64(Head(queue).speed))
      ]_vars

\* An advance has just applied a staged speed: the speed changed, nothing is
\* staged any more.
C5_Witness ==
    /\ last \in {"Tick", "Next"}
    /\ speed # speed_before
    /\ next_speed = None

\* C5 as first stated: the first advance after a staging copies the staged
\* value into speed and empties next_speed, and no staged value is discarded
\* without having been applied.
C5_Original ==
    [][/\ (next_speed # None /\ AdvanceStep) =>
              /\ speed' = next_speed[1]
              /\ next_speed' = None
       /\ (next_speed # None /\ next_speed' # next_speed) =>
              speed' = next_speed[1]
      ]_vars

(***************************************************************************)
(* C6.  In every state, handling a manual Next and handling a Tick of the  *)
(* timer give the same successor: each advances the grid by exactly one    *)
(* generation, each applies and clears a pending speed in the same way,    *)
(* and each leaves is_playing as it is.                                    *)
(***************************************************************************)
C6_NextLikeTick ==
    \A by_next \in {update(game, NextMsg)}, by_tick \in {update(game, Tick)} :
        /\ by_next = by_tick
        /\ subscription(by_next) = subscription(by_tick)
        /\ \A stepped \in {SynchronousStep(cells)} :
               \A g \in {by_next, by_tick} :
                   /\ g.cells = stepped
                   /\ g.is_playing = is_playing
                   /\ g.next_speed = None
                   /\ g.speed = IF next_speed # None THEN next_speed[1] ELSE speed

\* A manual Next has been handled while a speed was staged, and has applied
\* it, on a grid that the advance changes.
C6_Witness ==
    /\ last = "Next"
    /\ speed # speed_before
    /\ next_speed = None
    /\ cells # EmptyCells
    /\ SynchronousStep(cells) # cells

(***************************************************************************)
(* C7.  Once a Toggle has set is_playing to false, no Tick advances the    *)
(* grid until playback is toggled on again, a Tick the timer had sent      *)
(* before the Toggle was handled included: a Tick handled while not        *)
(* playing leaves the grid as it is.                                       *)
(***************************************************************************)
C7_NoTickWhilePaused ==
    [][(Handled("Tick") /\ ~is_playing) => cells' = cells]_vars

(***************************************************************************)
(* Inputs of the canvas, for the properties below.                         *)
(***************************************************************************)
\* The canvas has just queued an intent: only the canvas makes Populate
\* messages.
Emitted ==
    /\ Len(queue') = Len(queue) + 1
    /\ queue'[Len(queue')].type = "Populate"

(***************************************************************************)
(* C8.  The dragging flag (mouse_pressed) is set by a press of the left    *)
(* button only when the pointer is in the grid's region: after a press     *)
(* outside it (which the canvas reports Ignored) the session is not        *)
(* dragging.                                                               *)
(***************************************************************************)
C8_PressOutsideDoesNotDrag ==
    (last = ButtonPressedLeft /\ status = "Ignored") => ~mouse_pressed

(***************************************************************************)
(* C9.  Wherever the pointer is, a release of the left button leaves the   *)
(* dragging flag false and makes no intent, and a move handled while the   *)
(* flag is false makes no intent and leaves the flag false.                *)
(***************************************************************************)
C9_ReleaseAndIdleMove ==
    /\ last = ButtonReleasedLeft => ~mouse_pressed
    /\ \A bounds \in Viewports, cursor \in Cursors :
           /\ \A r \in {canvas_update(cells, mouse_pressed, ButtonReleasedLeft,
                                      bounds, cursor)} :
                  r.mouse_pressed = FALSE /\ r.message = None
           /\ ~mouse_pressed =>
                  \A r \in {canvas_update(cells, mouse_pressed, CursorMoved,
                                          bounds, cursor)} :
                      r.mouse_pressed = FALSE /\ r.message = None

\* The button has been released after a drag that painted a cell.
C9_Witness ==
    /\ last = ButtonReleasedLeft
    /\ ~mouse_pressed
    /\ cells # EmptyCells

(***************************************************************************)
(* C10.  Editing is one-way: a mouse event and the handling of a Populate  *)
(* message never turn a Populated cell Unpopulated, and every intent the   *)
(* canvas makes is the activation of a cell of the grid that is            *)
(* Unpopulated when the event is handled.                                  *)
(***************************************************************************)
C10_EditingOneWay ==
    [][/\ (last' \in Events \/ Handled("Populate")) =>
              \A i \in Index, j \in Index :
                  cells[i][j] = Populated => cells'[i][j] = Populated
       /\ Handled("Populate") =>
              cells' = [cells EXCEPT ![Head(queue).i][Head(queue).j] = Populated]
       /\ Emitted =>
              \A m \in {queue'[Len(queue')]} :
                  /\ m.i \in Index
                  /\ m.j \in Index
                  /\ cells[m.i][m.j] = Unpopulated
      ]_vars

\* A Populate message has been handled, in a drag, on a grid that held a
\* Populated cell already.
C10_Witness ==
    /\ last = "Populate"
    /\ mouse_pressed
    /\ Cardinality({p \in Index \X Index : cells[p[1]][p[2]] = Populated}) >= 2

(***************************************************************************)
(* C13.  In every reachable state, handling Clear gives a grid whose every *)
(* cell is Unpopulated, equal to the grid of a fresh Grid::default()       *)
(* whatever the cells held before, and leaves is_playing, speed and the    *)
(* pending speed as they are; after a Clear has been handled the grid is   *)
(* empty.                                                                  *)
(***************************************************************************)
C13_ClearGivesFreshGrid ==
    /\ \A g \in {update(game, Clear)} :
           /\ \A i \in Index, j \in Index : g.cells[i][j] = Unpopulated
           /\ g.cells = EmptyCells
           /\ g.mouse_pressed = FALSE
           /\ g.is_playing = is_playing
           /\ g.speed = speed
           /\ g.next_speed = next_speed
    /\ last = "Clear" => cells = EmptyCells

\* A Clear has been handled while playing, with a speed pending and a speed
\* other than the initial one.
C13_Witness ==
    /\ last = "Clear"
    /\ cells = EmptyCells
    /\ is_playing
    /\ next_speed # None
    /\ speed # InitialSpeed

(***************************************************************************)
(* C14.  On every grid and for every (i, j) of the grid, handling          *)
(* Populate{i, j} leaves cell (i, j) Populated and every other cell, the   *)
(* dragging flag, is_playing, speed and the pending speed as they are;     *)
(* handling the same message once more changes nothing.                    *)
(***************************************************************************)
C14_PopulateIdempotent ==
    \A i \in Index, j \in Index :
        \A m \in {[type |-> "Populate", i |-> i, j |-> j]} :
            \A g \in {update(game, m)} :
                /\ g.cells[i][j] = Populated
                /\ \A k \in Index, l \in Index :
                       <<k, l>> # <<i, j>> => g.cells[k][l] = cells[k][l]
                /\ g.mouse_pressed = mouse_pressed
                /\ g.is_playing = is_playing
                /\ g.speed = speed
                /\ g.next_speed = next_speed
                /\ update(g, m) = g

\* A Populate message has been handled during a drag and has painted the
\* grid's first cell.
C14_Witness ==
    /\ last = "Populate"
    /\ mouse_pressed
    /\ Cardinality({p \in Index \X Index : cells[p[1]][p[2]] = Populated}) = 1

(***************************************************************************)
(* C17.  With every SpeedChanged carrying a value of the slider's range    *)
(* [1, 20]: in every reachable state the current speed is an integer in    *)
(* 1..20, a pending speed is in 1..20, the period of subscription(), the   *)
(* integer quotient 1000 / speed, is between 50 and 1000 ms, and the       *)
(* divisor is not zero; every value of the range keeps it so.              *)
(***************************************************************************)
C17_SpeedInRange ==
    /\ speed \in 1 .. 20
    /\ speed # 0
    /\ next_speed # None => next_speed[1] \in 1 .. 20
    /\ MILLISEC \div speed \in 50 .. 1000
    /\ timer # None => timer[1] \in 50 .. 1000
    /\ \A v \in SliderRange :
           \A rounded \in {round_as_u64(v)} :
               /\ rounded \in 1 .. 20
               /\ MILLISEC \div rounded \in 50 .. 1000

\* The timer runs at the fastest speed, with the slowest one pending.
C17_Witness ==
    /\ is_playing
    /\ speed = 20
    /\ timer = Some(50)
    /\ next_speed = Some(1)

(***************************************************************************)
(* C18.  When a Toggle turns playback on, the timer runs with the period   *)
(* 1000 / speed of the speed held at that moment; when an advance (Tick or *)
(* Next) applies a pending speed while playing, the timer runs with the    *)
(* period 1000 / speed of the new speed from then on; after every step     *)
(* that leaves is_playing true the timer's period is 1000 / speed.         *)
(***************************************************************************)
C18_PeriodFollowsSpeed ==
    [][/\ (Handled("Toggle") /\ ~is_playing) =>
              timer' = Some(MILLISEC \div speed)
       /\ (AdvanceStep /\ is_playing /\ next_speed # None) =>
              timer' = Some(MILLISEC \div next_speed[1])
       /\ is_playing' => timer' = Some(MILLISEC \div speed')
      ]_vars

\* An advance has applied a pending speed while playing, and the timer runs
\* with the new speed's period.
C18_Witness ==
    /\ last \in {"Tick", "Next"}
    /\ is_playing
    /\ speed # speed_before
    /\ timer = Some(MILLISEC \div speed)
    /\ timer # Some(MILLISEC \div speed_before)

(***************************************************************************)
(* C19.  After every step, a pending speed exists only while playing       *)
(* (is_playing false implies next_speed empty), and the speed the slider   *)
(* shows, next_speed if there is one and else speed, is the value of the   *)
(* SpeedChanged handled last (the initial 5 before the first): handling a  *)
(* SpeedChanged sets it to the message's value and no other message        *)
(* changes it.                                                             *)
(***************************************************************************)
\* GameOfLife::view: self.next_speed.unwrap_or(self.speed)
selected_speed(g) == IF g.next_speed # None THEN g.next_speed[1] ELSE g.speed

C19_PendingOnlyWhilePlaying ==
    [][/\ ~is_playing' => next_speed' = None
       /\ Handled("SpeedChanged") =>
              \A g \in {update(game, Head(queue))} :
                  selected_speed(g) = round_as_u64(Head(queue).speed)
       /\ ~Handled("SpeedChanged") =>
              selected_speed([speed |-> speed', next_speed |-> next_speed'])
                  = selected_speed(game)
      ]_vars

(***************************************************************************)
(* C15.  A grid whose only Populated cells are a 2x2 block is a fixed      *)
(* point of the advance wherever the block lies, against an edge and in a  *)
(* corner of the grid too: after each of 10 consecutive advances the grid  *)
(* is the one the advances started from.                                   *)
(***************************************************************************)
\* The grid whose Populated cells are (r, c), (r, c+1), (r+1, c), (r+1, c+1).
BlockAt(r, c) ==
    [i \in Index |-> [j \in Index |-> i \in {r, r + 1} /\ j \in {c, c + 1}]]

IsBlock(cs) == \E r \in 0 .. (SIZE - 2), c \in 0 .. (SIZE - 2) : cs = BlockAt(r, c)

\* The application after n more advances.
RECURSIVE advances(_, _)
advances(g, n) == IF n = 0 THEN g ELSE advances(update(g, NextMsg), n - 1)

InSquare(size, position) ==
    \A side \in {IF size.width <= size.height THEN size.width ELSE size.height} :
        /\ size.width - side <= 2 * position.x
        /\ 2 * position.x <= size.width + side
        /\ size.height - side <= 2 * position.y
        /\ 2 * position.y <= size.height + side

C12_HitTestInGrid ==
    /\ \A size \in HitSizes : \A position \in HitPositions(size) :
           \A at \in {cell_at(region(size), position)} :
               IF InSquare(size, position)
               THEN /\ at # None
                    /\ at[1][1] \in Index
                    /\ at[1][2] \in Index
                    /\ \A event \in Events :
                           \A r \in {canvas_update(cells, mouse_pressed, event,
                                                  size, Some(position))} :
                               r.message # None =>
                                   /\ r.message[1].i = at[1][1]
                                   /\ r.message[1].j = at[1][2]
               ELSE /\ at = None
                    /\ \A event \in Events :
                           \A r \in {canvas_update(cells, mouse_pressed, event,
                                                  size, Some(position))} :
                               r.status = "Ignored" /\ r.message = None
    /\ \A k \in 1 .. Len(queue) :
           queue[k].type = "Populate" => queue[k].i \in Index /\ queue[k].j \in Index

\* A move of the drag has hit a cell of the second row and column, and its
\* Populate message waits to be handled.
C12_Witness ==
    /\ last = CursorMoved
    /\ status = "Captured"
    /\ queue # << >>
    /\ queue[Len(queue)] = [type |-> "Populate", i |-> 1, j |-> 1]

(***************************************************************************)
(* The drag, for the properties below.                                     *)
(***************************************************************************)
\* The grid whose Populated cells are those of the first row.
RowZero == [i \in Index |-> [j \in Index |-> i = 0]]

\* The drag went over every cell of the first row and is over, and every
\* message it made has been handled.
DragDone ==
    /\ drag.phase = "up"
    /\ drag.visited = Index
    /\ queue = << >>

CountedIn(cs, p) ==
    /\ cs[p[1]][p[2]] = Populated
    /\ \A k \in Index, l \in Index :
           (<<k, l>> # p /\ k - p[1] \in -1 .. 1 /\ l - p[2] \in -1 .. 1) =>
               populated_neighbors(cs, k, l) =
                   populated_neighbors([cs EXCEPT ![p[1]][p[2]] = Unpopulated], k, l) + 1

\* The messages are handled first in, first out, and none leaves the queue
\* otherwise; a Populate sets its cell in the grid as it is when handled;
\* the grid changes by handled messages only.
InOrderNoLoss ==
    /\ Len(queue') < Len(queue) =>
           /\ queue' = Tail(queue)
           /\ last' = Head(queue).type
    /\ Len(queue') > Len(queue) => queue' = Append(queue, queue'[Len(queue')])
    /\ Len(queue') = Len(queue) => queue' = queue
    /\ Handled("Populate") =>
           cells' = [cells EXCEPT ![Head(queue).i][Head(queue).j] = Populated]
    /\ cells' # cells => Handled("Populate") \/ Handled("Clear") \/ AdvanceStep

C20_PendingEventuallyApplied ==
    /\ (is_playing /\ next_speed # None) ~> (~is_playing \/ next_speed = None)
    /\ [][(next_speed # None /\ next_speed' = None) =>
              (AdvanceStep /\ speed' = next_speed[1])]_vars
    /\ <>[]is_playing => []<><<DeliverTick>>_vars

\* A Tick of the timer has applied a staged speed while playing.
C20_Witness ==
    /\ last = "Tick"
    /\ is_playing
    /\ next_speed = None
    /\ speed # speed_before
    /\ timer = Some(MILLISEC \div speed)

=============================================================================
